---- MODULE Spec2Model ----
(***************************************************************************)
(* A model of ingredient_finder.py (and of the one place where it meets    *)
(* google_sheets_api.py): main() fetches the ingredient rows, caches them, *)
(* parses them into a recipe table and merges the queried recipes into a   *)
(* shopping-cart table.                                                    *)
(*                                                                         *)
(* Representation.                                                         *)
(*  - A Python str is a sequence of one-character strings, so that         *)
(*    strip(), lower(), float(), str() and "\t".join are computed.         *)
(*  - A Python float that holds a quantity is an integer number of         *)
(*    hundredths (1.12 is 112); the inputs are bounded to non-negative     *)
(*    decimals of at most two places.  A float that may be NaN (a duration,*)
(*    a conversion factor) is a record tagged "nan" or not.  A conversion  *)
(*    factor is the exact ratio of the two unit constants.  Sums are exact *)
(*    sums of hundredths: a float sum can differ from it in its last bits, *)
(*    which shows only in the digits str() prints, and in none of the runs *)
(*    within MaxRows and MaxQuery.                                         *)
(*  - An Ingredient object is an id into `heap`; the recipe table and the  *)
(*    shopping list hold ids, so that two lists holding the same object    *)
(*    see each other's writes, as Python lists of references do.           *)
(*  - ingredients.csv is the sequence of rows csv.reader yields from it.   *)
(***************************************************************************)
EXTENDS Integers, Sequences, FiniteSets, TLC

(***************************************************************************)
(* Bounds of the model.                                                    *)
(***************************************************************************)
MaxRows == 3
MaxQuery == 2

(***************************************************************************)
(* str                                                                     *)
(***************************************************************************)
UPPERCASE == <<"A","B","C","D","E","F","G","H","I","J","K","L","M",
               "N","O","P","Q","R","S","T","U","V","W","X","Y","Z">>
LOWERCASE == <<"a","b","c","d","e","f","g","h","i","j","k","l","m",
               "n","o","p","q","r","s","t","u","v","w","x","y","z">>
DIGITS == <<"0","1","2","3","4","5","6","7","8","9">>
WHITESPACE == {" ", "\t", "\n", "\r"}

LowerChar(c) ==
    IF \E i \in 1..Len(UPPERCASE) : UPPERCASE[i] = c
    THEN LOWERCASE[CHOOSE i \in 1..Len(UPPERCASE) : UPPERCASE[i] = c]
    ELSE c

\* str.lower()
Lower(s) == [i \in 1..Len(s) |-> LowerChar(s[i])]

RECURSIVE LStrip(_)
LStrip(s) == IF s # <<>> /\ Head(s) \in WHITESPACE THEN LStrip(Tail(s)) ELSE s

RECURSIVE RStrip(_)
RStrip(s) ==
    IF s # <<>> /\ s[Len(s)] \in WHITESPACE
    THEN RStrip(SubSeq(s, 1, Len(s) - 1))
    ELSE s

\* str.strip()
Strip(s) == RStrip(LStrip(s))

IsDigit(c) == \E i \in 1..Len(DIGITS) : DIGITS[i] = c
DigitValue(c) == (CHOOSE i \in 1..Len(DIGITS) : DIGITS[i] = c) - 1

RECURSIVE DigitsValue(_)
DigitsValue(s) ==
    IF s = <<>> THEN 0
    ELSE 10 * DigitsValue(SubSeq(s, 1, Len(s) - 1)) + DigitValue(s[Len(s)])

RECURSIVE IntStr(_)
\* str(int) of a non-negative int
IntStr(n) == IF n < 10 THEN <<DIGITS[n + 1]>> ELSE IntStr(n \div 10) \o <<DIGITS[(n % 10) + 1]>>

(***************************************************************************)
(* float                                                                   *)
(***************************************************************************)
NaN == [nan |-> TRUE, v |-> 0]
Num(h) == [nan |-> FALSE, v |-> h]
\* x != x
IsNaN(x) == x.nan

DotAt(s) == IF \E i \in 1..Len(s) : s[i] = "." THEN CHOOSE i \in 1..Len(s) : s[i] = "." ELSE 0

\* The decimal literals float() accepts among the bounded inputs: digits with
\* at most one point and at most two places after it, surrounding whitespace
\* ignored.
IsFloatLiteral(s) ==
    LET t == Strip(s)
        p == DotAt(t)
        ip == IF p = 0 THEN t ELSE SubSeq(t, 1, p - 1)
        fp == IF p = 0 THEN <<>> ELSE SubSeq(t, p + 1, Len(t))
    IN  /\ \A i \in 1..Len(ip) : IsDigit(ip[i])
        /\ \A i \in 1..Len(fp) : IsDigit(fp[i])
        /\ Len(ip) + Len(fp) > 0
        /\ Len(fp) <= 2

\* float(s), in hundredths, for a literal float() accepts.
ParseFloat(s) ==
    LET t == Strip(s)
        p == DotAt(t)
        ip == IF p = 0 THEN t ELSE SubSeq(t, 1, p - 1)
        fp == IF p = 0 THEN <<>> ELSE SubSeq(t, p + 1, Len(t))
        frac == IF Len(fp) = 0 THEN 0
                ELSE IF Len(fp) = 1 THEN 10 * DigitsValue(fp)
                ELSE DigitsValue(fp)
    IN  100 * DigitsValue(ip) + frac

\* str(float) of a quantity held in hundredths: "33.0", "1.12", "0.5".
FloatStr(h) ==
    LET f == h % 100
    IN  IntStr(h \div 100) \o <<".">> \o
        (IF f % 10 = 0 THEN IntStr(f \div 10) ELSE <<DIGITS[(f \div 10) + 1], DIGITS[(f % 10) + 1]>>)

RECURSIVE MulDiv(_, _, _)
\* <<quotient, remainder>> of q * n by d, without leaving 32 bits.
MulDiv(q, n, d) ==
    IF q = 0 THEN <<0, 0>>
    ELSE LET h == MulDiv(q \div 2, n, d)
             b == q % 2
             t == 2 * h[2] + b * (n % d)
         IN  <<2 * h[1] + b * (n \div d) + (t \div d), t % d>>

\* round(q * n / d, 2) with q and the result in hundredths.  Python rounds the
\* float product; the exact product rounds to the same hundredth except at an
\* exact tie, where the float nearest the product decides.  The ratios the
\* bounded inputs produce (cup and tbsp) have no tie among the reachable
\* quantities.
Round2(q, n, d) ==
    LET m == MulDiv(q, n, d)
    IN  IF 2 * m[2] < d THEN m[1]
        ELSE IF 2 * m[2] > d THEN m[1] + 1
        ELSE m[1] + (m[1] % 2)

(***************************************************************************)
(* Literals                                                                *)
(***************************************************************************)
s_empty == <<>>
s_tbsp == <<"t","b","s","p">>
s_tsp == <<"t","s","p">>
s_cup == <<"c","u","p">>
s_oz == <<"o","z">>
s_g == <<"g">>
s_kg == <<"k","g">>
s_lb == <<"l","b">>
s_count == <<"c","o","u","n","t">>
s_indefinite == <<"i","n","d","e","f","i","n","i","t","e">>
s_flour == <<"f","l","o","u","r">>
s_pantry == <<"p","a","n","t","r","y">>

(***************************************************************************)
(* Unit tables and convert_units                                           *)
(***************************************************************************)
\* unit / liter, in 1e-8 liter
VOLUME_UNITS ==
    (s_tbsp :> 1478680) @@ (s_tsp :> 492892) @@ (s_cup :> 23658800) @@ (s_oz :> 2957350)

\* unit / kg, in 1e-7 kg
MASS_UNITS ==
    (s_g :> 10000) @@ (s_kg :> 10000000) @@ (s_lb :> 4535920) @@ (s_oz :> 283495)

Ratio(n, d) == [nan |-> FALSE, num |-> n, den |-> d]
NaNRatio == [nan |-> TRUE, num |-> 0, den |-> 1]
IsOne(c) == ~c.nan /\ c.num = c.den

convert_units_merged_table(unit1, unit2) ==
    LET u1 == Lower(unit1)
        u2 == Lower(unit2)
        ALL_UNITS == VOLUME_UNITS @@ MASS_UNITS
    IN  IF u1 = u2 THEN Ratio(1, 1)
        ELSE IF u1 \in DOMAIN ALL_UNITS /\ u2 \in DOMAIN ALL_UNITS
        THEN Ratio(ALL_UNITS[u1], ALL_UNITS[u2])
        ELSE NaNRatio

convert_units(unit1, unit2) ==
    LET u1 == Lower(unit1)
        u2 == Lower(unit2)
    IN  IF u1 = u2 THEN Ratio(1, 1)
        ELSE IF u1 \in DOMAIN VOLUME_UNITS /\ u2 \in DOMAIN VOLUME_UNITS
        THEN Ratio(VOLUME_UNITS[u1], VOLUME_UNITS[u2])
        ELSE IF u1 \in DOMAIN MASS_UNITS /\ u2 \in DOMAIN MASS_UNITS
        THEN Ratio(MASS_UNITS[u1], MASS_UNITS[u2])
        ELSE NaNRatio

(***************************************************************************)
(* Inputs                                                                  *)
(***************************************************************************)
HEADER == << <<"r">>, <<"n">>, <<"q">>, <<"u">>, <<"l">>, <<"d">> >>

\* recipe | ingredient | quantity | unit | location | duration
ROW_A_FLOUR_CUP == << <<"A">>, <<"F","l","o","u","r">>, <<"1">>, s_cup, s_pantry, s_indefinite >>
ROW_B_FLOUR_TBSP == << <<"B"," ">>, <<"f","l","o","u","r"," ">>, <<"2">>, s_tbsp, s_pantry, s_indefinite >>
ROW_SALT == << <<" ">>, <<"s","a","l","t">>, s_empty, s_empty, s_empty, s_empty >>
ROW_B_EGGS == << <<"B">>, <<"e","g","g","s">>, <<"2",".","5">>, s_count, s_empty, <<"7">> >>
ROW_FLOUR_G == << s_empty, s_flour, <<"1">>, s_g, s_empty, <<" ">> >>
ROW_SHORT == << <<"B">>, <<"r","i","c","e">>, <<"1">>, s_cup >>
ROW_BAD_QUANTITY == << s_empty, s_flour, <<" ">>, s_cup, s_empty, s_empty >>

RowSet ==
    {ROW_A_FLOUR_CUP, ROW_B_FLOUR_TBSP, ROW_SALT, ROW_B_EGGS, ROW_FLOUR_G, ROW_SHORT,
     ROW_BAD_QUANTITY}

Bodies == UNION {[1..n -> RowSet] : n \in 0..MaxRows}
Tables == {<<HEADER>> \o b : b \in Bodies}

QueryNames == {<<"A">>, <<"B">>, <<"Z">>}
Queries == UNION {[1..n -> QueryNames] : n \in 0..MaxQuery}

UnitStrings ==
    {s_tbsp, s_tsp, s_cup, s_oz, s_g, s_kg, s_lb, s_count, s_empty,
     <<"C","u","p">>, <<"O","Z">>, <<"K","g">>, <<"p","i","n","c","h">>}

(***************************************************************************)
(* State                                                                   *)
(***************************************************************************)
VARIABLES
    pc,              \* where main() is
    error,           \* the exception that ended the run, "" while there is none
    remote,          \* what the Sheets request answers: rows, or HttpError
    cache,           \* ingredients.csv
    cache_before,    \* ingredients.csv when the run started
    ingredients,     \* the rows main() hands on, those not yet consumed
    current_recipe,  \* load_ingredients
    heap,            \* the Ingredient objects, by id
    recipes,         \* recipe name -> ids
    bulk_items,      \* set of names
    query,
    key_index,       \* position of `key` in query
    ingredient_index,\* position of `ingredient` in recipes[key]
    table,           \* build_shopping_cart_table
    shopping_list,   \* ids
    returned,        \* what build_shopping_cart_table returned to main()
    clipboard,
    unit_args,       \* convert_units called on its own: <<unit1, unit2>>
    conversion       \* and what it returned

vars == <<pc, error, remote, cache, cache_before, ingredients, current_recipe, heap, recipes,
          bulk_items, query, key_index, ingredient_index, table, shopping_list, returned,
          clipboard, unit_args, conversion>>

NoTable == [some |-> FALSE, table |-> <<>>]
NoConversion == [called |-> FALSE, value |-> NaNRatio]

loadVars == <<current_recipe, heap, recipes, bulk_items>>
buildVars == <<key_index, ingredient_index, table, shopping_list, returned>>
convertVars == <<unit_args, conversion>>

(***************************************************************************)
(* Ingredient                                                              *)
(***************************************************************************)
Ingredient__eq__all_fields(a, b) == a = b

\* Ingredient.__eq__
Ingredient__eq__(a, b) == a.name = b.name

\* `ingredient in shopping_list`
InList(h, sl, id) == \E i \in 1..Len(sl) : sl[i] = id \/ Ingredient__eq__(h[sl[i]], h[id])

\* shopping_list.index(ingredient)
IndexOf(h, sl, id) ==
    CHOOSE i \in 1..Len(sl) :
        /\ sl[i] = id \/ Ingredient__eq__(h[sl[i]], h[id])
        /\ \A j \in 1..(i - 1) : ~(sl[j] = id \/ Ingredient__eq__(h[sl[j]], h[id]))

(***************************************************************************)
(* load_ingredients                                                        *)
(***************************************************************************)
\* float(duration) of a stripped duration cell
ParseDuration(cell) ==
    LET duration == Strip(cell)
    IN  IF duration = s_indefinite THEN NaN
        ELSE IF Len(duration) = 0 THEN Num(0)
        ELSE Num(ParseFloat(duration))

ParseQuantity(cell) == IF Len(cell) = 0 THEN 0 ELSE ParseFloat(cell)

\* The exception one body row raises, "" when it raises none.
RowError(row) ==
    IF Len(row) < 6 THEN "IndexError"
    ELSE LET duration == Strip(row[6])
         IN  IF duration # s_indefinite /\ Len(duration) # 0 /\ ~IsFloatLiteral(duration)
             THEN "ValueError"
             ELSE IF Len(row[3]) # 0 /\ ~IsFloatLiteral(row[3]) THEN "ValueError"
             ELSE ""

NewIngredient(row) ==
    [name |-> Strip(Lower(row[2])),
     quantity |-> ParseQuantity(row[3]),
     unit |-> Strip(row[4]),
     location |-> Strip(row[5]),
     duration |-> ParseDuration(row[6])]

NextRecipeUnstripped(current, row) ==
    LET recipe_name == row[1]
    IN  IF Len(recipe_name) # 0 THEN recipe_name ELSE current

\* lines 93-95: the recipe the row belongs to
NextRecipe(current, row) ==
    LET recipe_name == Strip(row[1])
    IN  IF Len(recipe_name) # 0 THEN recipe_name ELSE current

EmptyLoad == [current_recipe |-> s_empty, heap |-> <<>>, recipes |-> <<>>, bulk_items |-> {}]

\* One iteration of `for row in table`, for a row that raises nothing.
LoadRowStep(st, row) ==
    LET cur == NextRecipe(st.current_recipe, row)
        ingredient == NewIngredient(row)
        id == Len(st.heap) + 1
    IN  [current_recipe |-> cur,
         heap |-> Append(st.heap, ingredient),
         recipes |-> IF cur \in DOMAIN st.recipes
                     THEN [st.recipes EXCEPT ![cur] = Append(@, id)]
                     ELSE st.recipes @@ (cur :> <<id>>),
         bulk_items |-> IF IsNaN(ingredient.duration)
                        THEN st.bulk_items \cup {ingredient.name}
                        ELSE st.bulk_items]

RECURSIVE LoadBody(_, _)
LoadBody(st, rows) ==
    IF rows = <<>> THEN st ELSE LoadBody(LoadRowStep(st, Head(rows)), Tail(rows))

\* load_ingredients(table) for a table whose rows raise nothing
LoadAll(rows) == LoadBody(EmptyLoad, Tail(rows))

(***************************************************************************)
(* build_shopping_cart_table                                               *)
(***************************************************************************)
\* lines 137-140: what a compatible occurrence of quantity q adds
AddedQuantity(q, c) ==
    IF ~IsOne(c) THEN Round2(q, c.num, c.den) ELSE q

MergeStepAddingIncompatible(h, sl, id) ==
    IF ~InList(h, sl, id)
    THEN [heap |-> h, shopping_list |-> Append(sl, id)]
    ELSE LET stored == sl[IndexOf(h, sl, id)]
             c == convert_units(h[stored].unit, h[id].unit)
         IN  IF c.nan
             THEN [heap |-> [h EXCEPT ![stored].quantity = @ + h[id].quantity,
                                      ![stored].unit = h[id].unit],
                   shopping_list |-> sl]
             ELSE [heap |-> [h EXCEPT ![stored].quantity = @ + AddedQuantity(h[id].quantity, c)],
                   shopping_list |-> sl]

\* lines 127-141: one iteration of `for ingredient in recipes[key]`
MergeStep(h, sl, id) ==
    IF ~InList(h, sl, id)
    THEN [heap |-> h, shopping_list |-> Append(sl, id)]
    ELSE LET stored == sl[IndexOf(h, sl, id)]
             c == convert_units(h[stored].unit, h[id].unit)
         IN  IF c.nan
             THEN [heap |-> h, shopping_list |-> sl]
             ELSE [heap |-> [h EXCEPT ![stored].quantity = @ + AddedQuantity(h[id].quantity, c)],
                   shopping_list |-> sl]

\* ingredient_row
ingredient_row(ingredient) ==
    IF Len(Strip(ingredient.unit)) = 0
    THEN <<ingredient.name>>
    ELSE <<ingredient.name,
           IF ingredient.unit = s_count
           THEN IntStr(ingredient.quantity \div 100)
           ELSE FloatStr(ingredient.quantity),
           ingredient.unit>>

Max(a, b) == IF a >= b THEN a ELSE b

\* lines 142-164: the rows appended after the merge loop
FormatRows(h, sl, bulk) ==
    LET IsMain(id) == h[id].name \notin bulk
        IsPantry(id) == h[id].name \in bulk
        main_ids == SelectSeq(sl, IsMain)
        pantry_ids == SelectSeq(sl, IsPantry)
        main_ingredient_table == [i \in 1..Len(main_ids) |-> ingredient_row(h[main_ids[i]])]
        pantry_ingredient_table == [i \in 1..Len(pantry_ids) |-> ingredient_row(h[pantry_ids[i]])]
        blank == <<s_empty, s_empty, s_empty>>
        n == Max(Len(main_ingredient_table), Len(pantry_ingredient_table))
    IN  << <<>>,
           << <<"I","n","g","r","e","d","i","e","n","t","s">>, s_empty, s_empty,
              <<"P","a","n","t","r","y">> >> >>
        \o [i \in 1..n |->
              (IF i <= Len(main_ingredient_table) THEN main_ingredient_table[i] ELSE blank)
              \o (IF i <= Len(pantry_ingredient_table) THEN pantry_ingredient_table[i] ELSE blank)]

RECURSIVE JoinCells(_)
\* "\t".join(row)
JoinCells(row) ==
    IF row = <<>> THEN <<>>
    ELSE IF Len(row) = 1 THEN row[1]
    ELSE row[1] \o <<"\t">> \o JoinCells(Tail(row))

RECURSIVE JoinRows(_)
\* lines 208-210
JoinRows(t) == IF t = <<>> THEN <<>> ELSE JoinCells(Head(t)) \o <<"\n">> \o JoinRows(Tail(t))

(***************************************************************************)
(* main(): the run from the `try` of line 199 on.  The query is an input:  *)
(* lines 190-196 can produce any list of non-blank names.                  *)
(***************************************************************************)
HttpError == [ok |-> FALSE, rows |-> <<>>]
Answer(rows) == [ok |-> TRUE, rows |-> rows]

Init ==
    /\ pc = "main"
    /\ error = ""
    /\ query \in Queries
    /\ \/ /\ remote = HttpError
          /\ cache_before \in Tables \cup {<<>>}
       \/ /\ remote \in {Answer(t) : t \in Tables \cup {<<>>}}
          /\ cache_before \in {<<>>, <<HEADER, ROW_A_FLOUR_CUP>>}
    /\ cache = cache_before
    /\ ingredients = <<>>
    /\ current_recipe = s_empty
    /\ heap = <<>>
    /\ recipes = <<>>
    /\ bulk_items = {}
    /\ key_index = 1
    /\ ingredient_index = 1
    /\ table = <<>>
    /\ shopping_list = <<>>
    /\ returned = NoTable
    /\ clipboard = <<>>
    /\ unit_args = <<s_empty, s_empty>>
    /\ conversion = NoConversion

\* save_ingredients, line 78: open("ingredients.csv", "w") truncates the file
\* before the first row is asked of the generator load_table() returned.
SaveOpen ==
    /\ pc = "main"
    /\ pc' = "save_open"
    /\ cache' = <<>>
    /\ UNCHANGED <<error, remote, cache_before, ingredients, query, clipboard>>
    /\ UNCHANGED <<loadVars, buildVars, convertVars>>

\* save_ingredients, line 80: the first next() runs load_table's body, whose
\* request raises HttpError; main's handler (line 202) catches it.
FetchFails ==
    /\ pc = "save_open"
    /\ ~remote.ok
    /\ pc' = "except"
    /\ UNCHANGED <<error, remote, cache, cache_before, ingredients, query, clipboard>>
    /\ UNCHANGED <<loadVars, buildVars, convertVars>>

\* save_ingredients, lines 80-82: every row is written, the other branch of
\* the tee is returned.
FetchAndSave ==
    /\ pc = "save_open"
    /\ remote.ok
    /\ cache' = remote.rows
    /\ ingredients' = remote.rows
    /\ pc' = "load"
    /\ UNCHANGED <<error, remote, cache_before, query, clipboard>>
    /\ UNCHANGED <<loadVars, buildVars, convertVars>>

\* main, line 204: load_local_table()
LoadLocalTable ==
    /\ pc = "except"
    /\ ingredients' = cache
    /\ pc' = "load"
    /\ UNCHANGED <<error, remote, cache, cache_before, query, clipboard>>
    /\ UNCHANGED <<loadVars, buildVars, convertVars>>

\* load_ingredients, lines 88-91
LoadHeader ==
    /\ pc = "load"
    /\ IF ingredients = <<>>
       THEN /\ pc' = "raised"
            /\ error' = "StopIteration"
            /\ UNCHANGED ingredients
       ELSE /\ pc' = "load_rows"
            /\ ingredients' = Tail(ingredients)
            /\ UNCHANGED error
    /\ UNCHANGED <<remote, cache, cache_before, query, clipboard>>
    /\ UNCHANGED <<loadVars, buildVars, convertVars>>

\* load_ingredients, lines 92-114: one row
LoadRow ==
    /\ pc = "load_rows"
    /\ ingredients # <<>>
    /\ LET row == Head(ingredients)
           st == LoadRowStep([current_recipe |-> current_recipe, heap |-> heap,
                              recipes |-> recipes, bulk_items |-> bulk_items], row)
       IN  IF RowError(row) # ""
           THEN /\ pc' = "raised"
                /\ error' = RowError(row)
                /\ UNCHANGED <<ingredients, loadVars>>
           ELSE /\ ingredients' = Tail(ingredients)
                /\ current_recipe' = st.current_recipe
                /\ heap' = st.heap
                /\ recipes' = st.recipes
                /\ bulk_items' = st.bulk_items
                /\ UNCHANGED <<pc, error>>
    /\ UNCHANGED <<remote, cache, cache_before, query, clipboard>>
    /\ UNCHANGED <<buildVars, convertVars>>

\* load_ingredients returns (line 115); build_shopping_cart_table, lines 121-123
BuildStart ==
    /\ pc = "load_rows"
    /\ ingredients = <<>>
    /\ pc' = "build"
    /\ table' = << <<<<"P","l","a","n"," ","0">>>> >>
    /\ shopping_list' = <<>>
    /\ key_index' = 1
    /\ UNCHANGED <<error, remote, cache, cache_before, ingredients, query, clipboard>>
    /\ UNCHANGED <<loadVars, ingredient_index, returned, convertVars>>

BuildNextKeySkippingUnknown ==
    /\ pc = "build"
    /\ key_index <= Len(query)
    /\ table' = Append(table, <<query[key_index]>>)
    /\ IF query[key_index] \in DOMAIN recipes
       THEN pc' = "merge" /\ UNCHANGED key_index
       ELSE pc' = "build" /\ key_index' = key_index + 1
    /\ ingredient_index' = 1
    /\ UNCHANGED <<error, remote, cache, cache_before, ingredients, query, clipboard>>
    /\ UNCHANGED <<loadVars, shopping_list, returned, convertVars>>

\* lines 124-126: the next key of the query and the lookup recipes[key]
BuildNextKey ==
    /\ pc = "build"
    /\ key_index <= Len(query)
    /\ table' = Append(table, <<query[key_index]>>)
    /\ IF query[key_index] \in DOMAIN recipes
       THEN pc' = "merge" /\ UNCHANGED error
       ELSE pc' = "raised" /\ error' = "KeyError"
    /\ ingredient_index' = 1
    /\ UNCHANGED <<remote, cache, cache_before, ingredients, query, clipboard>>
    /\ UNCHANGED <<loadVars, key_index, shopping_list, returned, convertVars>>

\* lines 126-141: one ingredient of recipes[key]
BuildMerge ==
    /\ pc = "merge"
    /\ LET ids == recipes[query[key_index]]
           id == ids[ingredient_index]
           m == MergeStep(heap, shopping_list, id)
       IN  /\ heap' = m.heap
           /\ shopping_list' = m.shopping_list
           /\ IF InList(heap, shopping_list, id)
              THEN LET stored == shopping_list[IndexOf(heap, shopping_list, id)]
                   IN  /\ unit_args' = <<heap[stored].unit, heap[id].unit>>
                       /\ conversion' = [called |-> TRUE,
                                         value |-> convert_units(heap[stored].unit, heap[id].unit)]
              ELSE UNCHANGED convertVars
           /\ IF ingredient_index < Len(ids)
              THEN /\ ingredient_index' = ingredient_index + 1
                   /\ UNCHANGED <<pc, key_index>>
              ELSE /\ ingredient_index' = 1
                   /\ key_index' = key_index + 1
                   /\ pc' = "build"
    /\ UNCHANGED <<error, remote, cache, cache_before, ingredients, query, clipboard>>
    /\ UNCHANGED <<current_recipe, recipes, bulk_items, table, returned>>

\* lines 142-166: the table is completed and returned
BuildFormat ==
    /\ pc = "build"
    /\ key_index > Len(query)
    /\ table' = table \o FormatRows(heap, shopping_list, bulk_items)
    /\ returned' = [some |-> TRUE, table |-> table']
    /\ pc' = "built"
    /\ UNCHANGED <<error, remote, cache, cache_before, ingredients, query, clipboard>>
    /\ UNCHANGED <<loadVars, key_index, ingredient_index, shopping_list, convertVars>>

\* main, lines 208-211
MainOutput ==
    /\ pc = "built"
    /\ clipboard' = JoinRows(returned.table)
    /\ pc' = "done"
    /\ UNCHANGED <<error, remote, cache, cache_before, ingredients, query>>
    /\ UNCHANGED <<loadVars, buildVars, convertVars>>

Next ==
    \/ SaveOpen
    \/ FetchFails
    \/ FetchAndSave
    \/ LoadLocalTable
    \/ LoadHeader
    \/ LoadRow
    \/ BuildStart
    \/ BuildNextKey
    \/ BuildMerge
    \/ BuildFormat
    \/ MainOutput

Spec == Init /\ [][Next]_vars

(***************************************************************************)
(* convert_units on its own, over every pair of the unit strings.          *)
(***************************************************************************)
InitConvert ==
    /\ pc = "convert"
    /\ error = ""
    /\ query = <<>>
    /\ remote = HttpError
    /\ cache_before = <<>>
    /\ cache = <<>>
    /\ ingredients = <<>>
    /\ current_recipe = s_empty
    /\ heap = <<>>
    /\ recipes = <<>>
    /\ bulk_items = {}
    /\ key_index = 1
    /\ ingredient_index = 1
    /\ table = <<>>
    /\ shopping_list = <<>>
    /\ returned = NoTable
    /\ clipboard = <<>>
    /\ unit_args \in UnitStrings \X UnitStrings
    /\ conversion = NoConversion

ConvertUnits ==
    /\ pc = "convert"
    /\ conversion' = [called |-> TRUE, value |-> convert_units(unit_args[1], unit_args[2])]
    /\ pc' = "converted"
    /\ UNCHANGED <<error, remote, cache, cache_before, ingredients, query, clipboard, unit_args>>
    /\ UNCHANGED <<loadVars, buildVars>>

NextConvert == ConvertUnits

SpecConvert == InitConvert /\ [][NextConvert]_vars

(***************************************************************************)
(* The merge loop as a function of the query and of a parsed table: what   *)
(* build_shopping_cart_table computes when called on that table.           *)
(***************************************************************************)
RECURSIVE Occurrences(_, _)
\* the ingredients the loops of lines 124 and 126 visit, in order
Occurrences(q, rec) ==
    IF q = <<>> THEN <<>> ELSE rec[Head(q)] \o Occurrences(Tail(q), rec)

RECURSIVE MergeAll(_, _, _)
MergeAll(h, sl, ids) ==
    IF ids = <<>> THEN [heap |-> h, shopping_list |-> sl]
    ELSE LET m == MergeStep(h, sl, Head(ids))
         IN  MergeAll(m.heap, m.shopping_list, Tail(ids))

\* the shopping list of a build of query q on the parsed table p, as values
BuildList(q, p) ==
    LET m == MergeAll(p.heap, <<>>, Occurrences(q, p.recipes))
    IN  [i \in 1..Len(m.shopping_list) |->
            [name |-> m.heap[m.shopping_list[i]].name,
             quantity |-> m.heap[m.shopping_list[i]].quantity,
             unit |-> m.heap[m.shopping_list[i]].unit]]

(***************************************************************************)
(* Vocabulary of the properties                                            *)
(***************************************************************************)
\* build_shopping_cart_table has been called
BuildEntered == table # <<>>

\* the table load_ingredients returned to main() in this run
ParsedTable == LoadAll(remote.rows)

UnknownInQuery == \E i \in 1..Len(query) : query[i] \notin DOMAIN recipes

\* the current shopping list, as values
CurrentList ==
    [i \in 1..Len(shopping_list) |->
        [name |-> heap[shopping_list[i]].name,
         quantity |-> heap[shopping_list[i]].quantity,
         unit |-> heap[shopping_list[i]].unit]]

\* the occurrence the next BuildMerge step handles, and the entry it meets
Occurrence == recipes[query[key_index]][ingredient_index]
Merging == pc = "merge" /\ InList(heap, shopping_list, Occurrence)
Stored == shopping_list[IndexOf(heap, shopping_list, Occurrence)]

(***************************************************************************)
(* C1  When the remote fetch fails with HttpError, the rows handed to      *)
(* load_ingredients are exactly the rows ingredients.csv held before the   *)
(* run started, and the file still holds them.                             *)
(***************************************************************************)
C1_FallbackReadsCacheAsBefore ==
    (~remote.ok /\ pc = "load") => (ingredients = cache_before /\ cache = cache_before)

(***************************************************************************)
(* C2  A later occurrence (q, s) merged into an entry stored in another    *)
(* unit t of the same unit table adds round(q * const[s] / const[t], 2);   *)
(* and A = [flour 1 cup], B = [flour 2 tbsp], bulk {flour}, query [A, B]   *)
(* gives no fresh entry and the one pantry entry (flour, 1.12, cup).       *)
(***************************************************************************)
SameTableDistinct(T, s, t) == s # t /\ s \in DOMAIN T /\ t \in DOMAIN T

C2_MergeStep ==
    Merging =>
        LET s == Lower(heap[Occurrence].unit)
            t == Lower(heap[Stored].unit)
            q == heap[Occurrence].quantity
        IN  /\ SameTableDistinct(VOLUME_UNITS, s, t) =>
                  heap'[Stored].quantity =
                      heap[Stored].quantity + Round2(q, VOLUME_UNITS[s], VOLUME_UNITS[t])
            /\ SameTableDistinct(MASS_UNITS, s, t) =>
                  heap'[Stored].quantity =
                      heap[Stored].quantity + Round2(q, MASS_UNITS[s], MASS_UNITS[t])

C2_Example ==
    (/\ pc = "built"
     /\ query = << <<"A">>, <<"B">> >>
     /\ ParsedTable.recipes = (<<"A">> :> <<1>>) @@ (<<"B">> :> <<2>>)
     /\ [i \in 1..2 |-> <<ParsedTable.heap[i].name, ParsedTable.heap[i].quantity,
                          ParsedTable.heap[i].unit>>]
            = << <<s_flour, 100, s_cup>>, <<s_flour, 200, s_tbsp>> >>
     /\ bulk_items = {s_flour})
    => /\ CurrentList = <<[name |-> s_flour, quantity |-> 112, unit |-> s_cup]>>
       /\ returned.table[Len(returned.table)] =
              <<s_empty, s_empty, s_empty, s_flour, <<"1",".","1","2">>, s_cup>>

C2_MergeAddsQuantityInStoredUnit == [][C2_MergeStep]_vars /\ []C2_Example

(***************************************************************************)
(* C3  For a recipe R of the parsed table, the shopping list built from    *)
(* [R, R] has the entries of the one built from [R], in the same order,    *)
(* each with exactly twice the quantity.                                   *)
(***************************************************************************)
C3_TwiceTheRecipeDoublesEveryQuantity ==
    (pc = "built" /\ Len(query) = 2 /\ query[1] = query[2]) =>
        LET once == BuildList(<<query[1]>>, ParsedTable)
        IN  CurrentList = [i \in 1..Len(once) |->
                              [once[i] EXCEPT !.quantity = 2 * once[i].quantity]]

(***************************************************************************)
(* C4  Cart building leaves the recipe table as parsed: every Ingredient   *)
(* of the table keeps its name, quantity and unit, whatever the query, and *)
(* also when the build aborts on an unknown recipe.                        *)
(***************************************************************************)
C4_RecipeTableIsReadOnly ==
    BuildEntered => (heap = ParsedTable.heap /\ recipes = ParsedTable.recipes)

(***************************************************************************)
(* C5  (as stated) For distinct unit strings, compared case-insensitively, *)
(* one a unit of the volume table and the other a unit of the mass table,  *)
(* in either order, or either one in neither table, convert_units returns  *)
(* the NaN sentinel.                                                       *)
(***************************************************************************)
Unit1 == Lower(unit_args[1])
Unit2 == Lower(unit_args[2])
Recognized == DOMAIN VOLUME_UNITS \cup DOMAIN MASS_UNITS
CrossTable(u1, u2) ==
    \/ u1 \in DOMAIN VOLUME_UNITS /\ u2 \in DOMAIN MASS_UNITS
    \/ u1 \in DOMAIN MASS_UNITS /\ u2 \in DOMAIN VOLUME_UNITS

C5_CrossTableIsNaN ==
    (/\ pc = "converted"
     /\ Unit1 # Unit2
     /\ \/ CrossTable(Unit1, Unit2)
        \/ Unit1 \notin Recognized
        \/ Unit2 \notin Recognized)
    => conversion.value.nan

(***************************************************************************)
(* C5  (amended) The same, for the pairs in which neither unit is oz, the  *)
(* one unit of both tables: oz converts, by the volume table or by the     *)
(* mass table, with every other recognized unit.                           *)
(***************************************************************************)
C5_CrossTableWithoutOzIsNaN ==
    (/\ pc = "converted"
     /\ Unit1 # Unit2
     /\ \/ CrossTable(Unit1, Unit2) /\ Unit1 # s_oz /\ Unit2 # s_oz
        \/ Unit1 \notin Recognized
        \/ Unit2 \notin Recognized)
    => conversion.value.nan

C5_Witness ==
    /\ pc = "converted"
    /\ unit_args = << <<"C","u","p">>, <<"K","g">> >>
    /\ conversion.value.nan

(***************************************************************************)
(* C6  If a name of the query is absent from the recipe table, the build   *)
(* ends in a lookup error and hands no table to its caller, wherever the   *)
(* name is in the query and however many valid recipes precede it.         *)
(***************************************************************************)
C6_UnknownRecipeReturnsNoTable ==
    (BuildEntered /\ UnknownInQuery) =>
        /\ returned = NoTable
        /\ clipboard = <<>>
        /\ pc \in {"build", "merge", "raised"}
        /\ pc = "raised" =>
              /\ error = "KeyError"
              /\ query[key_index] \notin DOMAIN recipes
              /\ \A i \in 1..(key_index - 1) : query[i] \in DOMAIN recipes

C6_Witness ==
    /\ pc = "raised"
    /\ error = "KeyError"
    /\ key_index = 2
    /\ shopping_list # <<>>
    /\ Len(table) = 3
    /\ returned = NoTable

(***************************************************************************)
(* C7  Every body row that load_ingredients has consumed is in the list of *)
(* the most recent non-empty trimmed column-0 value at or before it, the   *)
(* lists are in row order, and a blank column 0 joins the preceding row's  *)
(* recipe.                                                                 *)
(***************************************************************************)
Body == Tail(remote.rows)
NamedRows(i) == {j \in 1..i : Len(Strip(Body[j][1])) # 0}
LastNamedRow(i) == CHOOSE j \in NamedRows(i) : \A k \in NamedRows(i) : k <= j

C7_RowsJoinTheMostRecentRecipe ==
    /\ \A i \in 1..Len(heap) :
          NamedRows(i) # {} =>
              LET name == Strip(Body[LastNamedRow(i)][1])
              IN  /\ name \in DOMAIN recipes
                  /\ \E k \in 1..Len(recipes[name]) : recipes[name][k] = i
    /\ \A name \in DOMAIN recipes :
          /\ \A k \in 1..(Len(recipes[name]) - 1) : recipes[name][k] < recipes[name][k + 1]
          /\ \A k \in 1..Len(recipes[name]) :
                LET i == recipes[name][k]
                IN  /\ i \in 1..Len(heap)
                    /\ NamedRows(i) # {} => name = Strip(Body[LastNamedRow(i)][1])
    /\ \A i \in 1..Len(heap) : heap[i].name = Strip(Lower(Body[i][2]))

C7_Witness ==
    /\ pc = "build"
    /\ Len(heap) = 3
    /\ Body[2][1] = <<" ">>
    /\ recipes = (<<"A">> :> <<1, 2>>) @@ (<<"B">> :> <<3>>)

(***************************************************************************)
(* C8  A merge of an occurrence whose unit is incompatible with the stored *)
(* entry's leaves every entry as it was and the build goes on: it raises   *)
(* nothing and, when every name of the query is known, returns a table.    *)
(* No merge changes the unit of an entry.                                  *)
(***************************************************************************)
C8_IncompatibleStep ==
    (Merging /\ convert_units(heap[Stored].unit, heap[Occurrence].unit).nan) =>
        /\ heap' = heap
        /\ shopping_list' = shopping_list
        /\ error' = ""
        /\ pc' \in {"merge", "build"}
        /\ <<key_index', ingredient_index'>> # <<key_index, ingredient_index>>

C8_UnitStep ==
    BuildEntered =>
        /\ Len(heap') = Len(heap)
        /\ \A id \in 1..Len(heap) : heap'[id].unit = heap[id].unit

C8_BuildRaisesOnlyOnUnknownRecipe ==
    /\ (BuildEntered /\ pc = "raised") => (error = "KeyError" /\ UnknownInQuery)
    /\ (BuildEntered /\ pc = "build" /\ key_index > Len(query)) => ~UnknownInQuery
    /\ pc \in {"built", "done"} => returned.some

C8_IncompatibleUnitsAreDropped ==
    /\ [][C8_IncompatibleStep]_vars
    /\ [][C8_UnitStep]_vars
    /\ []C8_BuildRaisesOnlyOnUnknownRecipe

C8_Witness ==
    /\ pc = "built"
    /\ returned.some
    /\ conversion.called
    /\ conversion.value.nan
    /\ unit_args = <<s_cup, s_g>>
    /\ CurrentList = <<[name |-> s_flour, quantity |-> 200, unit |-> s_cup]>>

(***************************************************************************)
(* C9  At every step of the merge loop the shopping list holds no name     *)
(* twice, in the order in which the names were first met along the query   *)
(* and each recipe's stored order.                                         *)
(***************************************************************************)
\* the occurrences the loop has handled so far
Handled ==
    IF pc = "merge"
    THEN Occurrences(SubSeq(query, 1, key_index - 1), recipes)
         \o SubSeq(recipes[query[key_index]], 1, ingredient_index - 1)
    ELSE Occurrences(SubSeq(query, 1, key_index - 1), recipes)

RECURSIVE FirstSeen(_, _)
FirstSeen(ids, names) ==
    IF ids = <<>> THEN names
    ELSE IF \E i \in 1..Len(names) : names[i] = heap[Head(ids)].name
         THEN FirstSeen(Tail(ids), names)
         ELSE FirstSeen(Tail(ids), Append(names, heap[Head(ids)].name))

C9_ListIsFirstSeenOrderWithoutDuplicates ==
    BuildEntered =>
        /\ \A i, j \in 1..Len(shopping_list) :
              i # j => heap[shopping_list[i]].name # heap[shopping_list[j]].name
        /\ [i \in 1..Len(shopping_list) |-> heap[shopping_list[i]].name]
              = FirstSeen(Handled, <<>>)

C9_Witness ==
    /\ pc = "built"
    /\ Len(shopping_list) = 2
    /\ Len(Handled) = 4

(***************************************************************************)
(* C10  In every ingredient row of the returned table the fresh side takes *)
(* exactly the first 3 cells, so that the rendering of pantry[i] starts at *)
(* cell index 3, under the "Pantry" header.                                *)
(***************************************************************************)
PantryIds == SelectSeq(shopping_list, LAMBDA id : heap[id].name \in bulk_items)
FreshIds == SelectSeq(shopping_list, LAMBDA id : heap[id].name \notin bulk_items)
DataRow(i) == returned.table[Len(query) + 3 + i]

C10_PantryStartsAtCellThree ==
    returned.some =>
        \A i \in 1..Max(Len(FreshIds), Len(PantryIds)) :
            /\ Len(DataRow(i)) >= 3
            /\ i > Len(FreshIds) => SubSeq(DataRow(i), 1, 3) = <<s_empty, s_empty, s_empty>>
            /\ i <= Len(PantryIds) =>
                  SubSeq(DataRow(i), 4, Len(DataRow(i))) = ingredient_row(heap[PantryIds[i]])

====
